---- MODULE Spec2Model ----
(***************************************************************************)
(* Model of Grow-Myelin/dataTools: the table store written by DataFetcher  *)
(* (dataFetcher.py) and the alignment routine of DataIngestor, which the   *)
(* repository holds in two versions (data_ingestion.py, dataIngestion.py). *)
(***************************************************************************)
EXTENDS Integers, Sequences, FiniteSets, TLC

VARIABLES
    store,        \* the sqlite database: table name -> table
    clock,        \* number of load timestamps handed out so far (datetime.now())
    pending,      \* tickers / series the loop of fetch_stocks_data / fetch_economic_data has still to visit
    kind,         \* which loop runs: "stock" (fetch_stocks_data), "economic" (fetch_economic_data), "none"
    last,         \* inputs and outcome of the latest fetch_and_insert_* call
    ref,          \* the store as the loop leaves it when the calls that met a storage failure are left out
    table_names,  \* DataIngestor.table_names
    min_date,     \* DataIngestor.min_date
    ran,          \* which module's fetch_and_process_data has returned ("" = none yet)
    dfs,          \* the list fetch_and_process_data returned
    scaled,       \* feature_df_scaled of scale_data, once it has run
    raised        \* the exception that reached the caller of the latest operation

vars == <<store, clock, pending, kind, last, ref, table_names, min_date, ran, dfs, scaled, raised>>

fetchVars == <<clock, pending, kind, last, ref>>
ingestVars == <<table_names, min_date, ran, dfs, scaled>>

(***************************************************************************)
(* Bounds of the model.                                                    *)
(***************************************************************************)
MaxRows == 4        \* rows held by the tables a DataIngestor reads, all tables together
MaxRecords == 2     \* records in one API response
MaxScaleRows == 3   \* rows of a sequence handed to scale_data

(***************************************************************************)
(* Texts.  Every cell of a table is TEXT; a Python None / SQL NULL is the  *)
(* text NULL.  Dates are ISO texts of fixed width, for which sqlite's      *)
(* bytewise comparison of TEXT is the calendar order.                     *)
(***************************************************************************)
NULL == "<NULL>"
EmptyText == ""

DateTexts == {"2000-01-01", "2000-01-02", "2000-01-03"}
MinDateTexts == {"1999-12-31", "2000-01-01", "2000-01-02"}
ValueTexts == {"5", "."}

\* datetime.now().isoformat() at the n-th reading of the clock
TsText == <<"2024-01-01T00:00:01", "2024-01-01T00:00:02", "2024-01-01T00:00:03",
            "2024-01-01T00:00:04", "2024-01-01T00:00:05", "2024-01-01T00:00:06">>

\* pd.to_datetime: the day the text names, as a day number (NaT = -1 for no date)
NaT == -1
to_datetime(text) ==
    CASE text = "1999-12-31" -> 0
      [] text = "2000-01-01" -> 1
      [] text = "2000-01-02" -> 2
      [] text = "2000-01-03" -> 3
      [] OTHER -> NaT

\* sqlite's  a > b  on two ISO date texts
SqlTextGreater(a, b) == to_datetime(a) > to_datetime(b)

\* A numeric cell of a pandas Series: <<n>>, or NaN (missing)
NaN == <<>>
Num(n) == <<n>>

\* pd.to_numeric(..., errors="coerce") on one cell
to_numeric(text) ==
    CASE text = "0" -> Num(0)
      [] text = "5" -> Num(5)
      [] text = "7" -> Num(7)
      [] OTHER -> NaN

(***************************************************************************)
(* Sequence helpers.                                                       *)
(***************************************************************************)
\* the subsequence of s at the positions i with P(i)
SubSeqWhere(s, P(_)) ==
    LET F[i \in 0..Len(s)] ==
            IF i = 0 THEN <<>>
            ELSE IF P(i) THEN Append(F[i - 1], s[i]) ELSE F[i - 1]
    IN  F[Len(s)]

Range(s) == {s[i] : i \in DOMAIN s}

SeqsUpTo(S, n) == UNION {[1..k -> S] : k \in 0..n}

SetMin(S) == CHOOSE x \in S : \A y \in S : x <= y

(***************************************************************************)
(* Table store (dataFetcher.py).                                           *)
(***************************************************************************)
TableNames == {"income_statement", "balance_sheet_statement", "UNRATE", "VIXCLS"}

NoTable == [exists |-> FALSE, columns |-> <<>>, rows |-> <<>>, seq |-> 0]

EmptyStore == [t \in TableNames |-> NoTable]

\* report_link.replace("-", "_")
Sanitize(report_link) ==
    CASE report_link = "income-statement" -> "income_statement"
      [] report_link = "balance-sheet-statement" -> "balance_sheet_statement"
      [] OTHER -> report_link

\* CREATE TABLE IF NOT EXISTS name (id ..., [ticker TEXT,] "col" TEXT ..., "record_load_timestamp" TEXT)
CreatedColumns(columns, is_stock) ==
    <<"id">> \o (IF is_stock THEN <<"ticker">> ELSE <<>>) \o columns \o <<"record_load_timestamp">>

\* the statement is malformed when the response's first record has no field
CreateStatementOk(columns) == Len(columns) > 0

\* DataFetcher.create_table with a working connection: the database afterwards.
\* An sqlite3.Error is printed inside create_table and the database is left as it was.
create_table(db, table_name, columns, is_stock) ==
    IF db[table_name].exists \/ ~CreateStatementOk(columns)
    THEN db
    ELSE [db EXCEPT ![table_name] =
            [exists |-> TRUE, columns |-> CreatedColumns(columns, is_stock),
             rows |-> <<>>, seq |-> 0]]

\* statement.get(col, default)
DictGet(statement, col, default) ==
    IF col \in DOMAIN statement THEN statement[col] ELSE default

\* the columns an INSERT of DataFetcher names
InsertColumns(columns, ticker) ==
    (IF ticker # EmptyText THEN <<"ticker">> ELSE <<>>) \o columns \o <<"record_load_timestamp">>

\* sqlite accepts the INSERT when the table exists and has every named column
InsertAccepted(db, table_name, columns, ticker) ==
    /\ db[table_name].exists
    /\ Len(columns) > 0
    /\ Range(InsertColumns(columns, ticker)) \subseteq Range(db[table_name].columns)

\* the row one INSERT adds: AUTOINCREMENT id, the named columns, NULL elsewhere
InsertedRow(table, columns, statement, ticker, ts, default, n) ==
    [c \in Range(table.columns) |->
        CASE c = "id" -> table.seq + n
          [] c = "ticker" -> IF ticker # EmptyText THEN ticker ELSE NULL
          [] c = "record_load_timestamp" -> ts
          [] c \in Range(columns) -> DictGet(statement, c, default)
          [] OTHER -> NULL]

\* (mutant: the rows of the call take the place of the rows the table held)
InsertAllReplacing(db, table_name, columns, data, ticker, ts) ==
    LET table == db[table_name]
        fresh == [n \in 1..Len(data) |->
                    InsertedRow(table, columns, data[n], ticker, ts, EmptyText, n)]
    IN  [db EXCEPT ![table_name].rows = fresh,
                   ![table_name].seq = table.seq + Len(data)]
\* DataFetcher._insert_data, committed: one row per record, appended in order
InsertAll(db, table_name, columns, data, ticker, ts) ==
    LET table == db[table_name]
        fresh == [n \in 1..Len(data) |->
                    InsertedRow(table, columns, data[n], ticker, ts, EmptyText, n)]
    IN  [db EXCEPT ![table_name].rows = table.rows \o fresh,
                   ![table_name].seq = table.seq + Len(data)]

(***************************************************************************)
(* Fetchers (dataFetcher.py).  An API response is a status and a JSON list *)
(* of flat records; a record is a function from field names to texts, and  *)
(* its keys come in the order the API writes them.                        *)
(***************************************************************************)
FieldOrder == <<"date", "value">>

ApiDates == {"2000-01-02", "2000-01-03"}
ApiValues == {"5"}

ApiRecords ==
    {[date |-> d] : d \in ApiDates} \cup {[date |-> d, value |-> v] : d \in ApiDates, v \in ApiValues}

\* a non-success response carries no data, or a body the fetcher must not read
Responses ==
    [status : {200}, json : SeqsUpTo(ApiRecords, MaxRecords)]
        \cup [status : {404}, json : {<<>>, <<[date |-> "2000-01-02", value |-> "5"]>>}]

\* list(first_statement.keys())
Keys(statement) == SubSeqWhere(FieldOrder, LAMBDA i : FieldOrder[i] \in DOMAIN statement)

\* response.raise_for_status() / response.status_code != 200 lets the response pass
\* (mutant: the status is not looked at)
SucceededWhateverStatus(response) == TRUE
Succeeded(response) == response.status = 200

\* what a storage call meets: it works, its execute/commit raises sqlite3.Error, or
\* sqlite3.connect itself raises
StorageOutcomes == {"ok", "sqlite3.Error", "connect"}

NoError == ""

\* number of characters of a text (the date texts are YYYY-MM-DD)
TextLen(text) == IF text \in DateTexts THEN 10 ELSE IF text = EmptyText THEN 0 ELSE 1

\* DataFetcher.fetch_and_insert_stock_data, lines 77-91: the database afterwards, the
\* exception that leaves the try body (exc), the error an inner handler printed, and
\* whether table creation or row insertion failed
StockOutcome(db, stock_ticker, report_link, response, createEnv, insertEnv, ts) ==
    IF ~Succeeded(response)
    THEN [db |-> db, exc |-> "HTTPError", printed |-> NoError, failed |-> FALSE]
    ELSE IF response.json = <<>>
    THEN [db |-> db, exc |-> NoError, printed |-> NoError, failed |-> FALSE]
    ELSE
      LET columns == Keys(response.json[1])
          table_name == Sanitize(report_link)
          created == IF createEnv = "ok" THEN create_table(db, table_name, columns, TRUE) ELSE db
      IN  IF createEnv = "connect"
          \* create_table: conn is unbound in its finally clause; _insert_data is not reached
          THEN [db |-> db, exc |-> "UnboundLocalError", printed |-> "sqlite3.Error", failed |-> TRUE]
          ELSE IF insertEnv = "connect"
          THEN [db |-> created, exc |-> "UnboundLocalError", printed |-> "sqlite3.Error", failed |-> TRUE]
          ELSE IF insertEnv = "sqlite3.Error" \/ ~InsertAccepted(created, table_name, columns, stock_ticker)
          \* conn.commit() is not reached and conn.close() discards the rows of this call
          THEN [db |-> created, exc |-> NoError, printed |-> "sqlite3.Error", failed |-> TRUE]
          ELSE [db |-> InsertAll(created, table_name, columns, response.json, stock_ticker, ts),
                exc |-> NoError,
                printed |-> IF createEnv = "ok" THEN NoError ELSE "sqlite3.Error",
                failed |-> createEnv # "ok"]

\* line 130: conn.execute('SELECT 1 FROM t WHERE date = ?', (statement['date'])).
\* The parameters are the date text itself, one binding per character, where the
\* statement has one placeholder.
SelectExistingRaises(db, table_name, statement) ==
    IF "date" \notin DOMAIN statement THEN "KeyError"
    ELSE IF ~db[table_name].exists THEN "sqlite3.OperationalError"
    ELSE IF TextLen(statement["date"]) # 1 THEN "sqlite3.ProgrammingError"
    ELSE NoError

\* line 131: existing_row is the Cursor that execute returned, whatever it selects;
\* a Cursor is true
NotExistingRow(db, table_name, statement) == FALSE

\* lines 121-140: the loop over the observations, with the uncommitted rows
EconomicLoop(db, table_name, columns, economic_data, ts) ==
    LET F[n \in 0..Len(economic_data)] ==
            IF n = 0 THEN [db |-> db, exc |-> NoError]
            ELSE LET sofar == F[n - 1]
                     exc == SelectExistingRaises(sofar.db, table_name, economic_data[n])
                 IN  IF sofar.exc # NoError THEN sofar
                     ELSE IF exc # NoError THEN [sofar EXCEPT !.exc = exc]
                     ELSE IF NotExistingRow(sofar.db, table_name, economic_data[n])
                     THEN [sofar EXCEPT !.db = [sofar.db EXCEPT
                            ![table_name].rows = Append(@,
                                InsertedRow(sofar.db[table_name], columns, economic_data[n],
                                            EmptyText, ts, NULL, 1)),
                            ![table_name].seq = @ + 1]]
                     ELSE sofar
    IN  F[Len(economic_data)]

\* DataFetcher.fetch_and_insert_economic_data, lines 104-144
EconomicOutcome(db, report_link, response, createEnv, insertEnv, ts) ==
    IF ~Succeeded(response)
    THEN [db |-> db, exc |-> "Exception", printed |-> NoError, failed |-> FALSE]
    ELSE IF response.json = <<>>
    THEN [db |-> db, exc |-> NoError, printed |-> NoError, failed |-> FALSE]
    ELSE
      LET columns == Keys(response.json[1])
          table_name == Sanitize(report_link)
          created == IF createEnv = "ok" THEN create_table(db, table_name, columns, FALSE) ELSE db
          loop == EconomicLoop(created, table_name, columns, response.json, ts)
      IN  IF createEnv = "connect"
          THEN [db |-> db, exc |-> "UnboundLocalError", printed |-> "sqlite3.Error", failed |-> TRUE]
          ELSE IF insertEnv = "connect"
          THEN [db |-> created, exc |-> "sqlite3.OperationalError", printed |-> NoError, failed |-> TRUE]
          ELSE IF insertEnv = "sqlite3.Error"
          THEN [db |-> created, exc |-> "sqlite3.OperationalError", printed |-> NoError, failed |-> TRUE]
          ELSE IF loop.exc # NoError
          \* the exception leaves the loop before conn.commit(): nothing of this call is kept
          THEN [db |-> created, exc |-> loop.exc, printed |-> NoError, failed |-> TRUE]
          ELSE [db |-> loop.db, exc |-> NoError,
                printed |-> IF createEnv = "ok" THEN NoError ELSE "sqlite3.Error",
                failed |-> createEnv # "ok"]

\* "except Exception" (lines 90 and 143) catches every exception the body raises
CaughtByExceptException(exc) ==
    exc \in {"HTTPError", "Exception", "KeyError", "UnboundLocalError",
             "sqlite3.OperationalError", "sqlite3.ProgrammingError"}

\* the exception that reaches the caller of fetch_and_insert_*
Escaping(exc) == IF exc = NoError \/ CaughtByExceptException(exc) THEN "none" ELSE exc

\* scale_data has not run
NotScaled == [done |-> FALSE, columns |-> <<>>]

NoCall == [kind |-> "none", series |-> "", table |-> "UNRATE", response |-> [status |-> 200, json |-> <<>>],
           createEnv |-> "ok", insertEnv |-> "ok", ts |-> "", exc |-> NoError, printed |-> NoError,
           failed |-> FALSE]

\* the storage outcomes that matter for a response: none when nothing is stored, and
\* no insertion outcome when creation already ended the call
EnvChoices(response) ==
    {e \in [create : StorageOutcomes, insert : StorageOutcomes] :
        /\ (~(response.status = 200 /\ response.json # <<>>)) => (e.create = "ok" /\ e.insert = "ok")
        /\ e.create = "connect" => e.insert = "ok"}

\* the call met a failure of the storage itself
StorageFailure(env) == env.create # "ok" \/ env.insert # "ok"

ReportLink == "income-statement"

\* one pass of the loop of fetch_stocks_data (lines 202-205):
\* data_fetcher.fetch_and_insert_stock_data(stock, api_key, report_link, from_date, to_date)
fetch_and_insert_stock_data ==
    /\ kind = "stock"
    /\ pending # <<>>
    /\ \E response \in Responses : \E env \in EnvChoices(response) :
          LET stock == Head(pending)
              ts == TsText[clock]
              out == StockOutcome(store, stock, ReportLink, response, env.create, env.insert, ts)
          IN  /\ store' = out.db
              /\ raised' = Escaping(out.exc)
              /\ last' = [kind |-> "stock", series |-> stock, table |-> Sanitize(ReportLink),
                          response |-> response, createEnv |-> env.create, insertEnv |-> env.insert,
                          ts |-> ts, exc |-> out.exc, printed |-> out.printed, failed |-> out.failed]
              /\ ref' = IF StorageFailure(env) THEN ref
                        ELSE StockOutcome(ref, stock, ReportLink, response, "ok", "ok", ts).db
    /\ pending' = Tail(pending)
    /\ clock' = clock + 1
    /\ UNCHANGED <<kind, ingestVars>>

\* one pass of the loop of fetch_economic_data (lines 221-222):
\* data_fetcher.fetch_and_insert_economic_data(api_key, table)
fetch_and_insert_economic_data ==
    /\ kind = "economic"
    /\ pending # <<>>
    /\ \E response \in Responses : \E env \in EnvChoices(response) :
          LET table == Head(pending)
              ts == TsText[clock]
              out == EconomicOutcome(store, table, response, env.create, env.insert, ts)
          IN  /\ store' = out.db
              /\ raised' = Escaping(out.exc)
              /\ last' = [kind |-> "economic", series |-> table, table |-> Sanitize(table),
                          response |-> response, createEnv |-> env.create, insertEnv |-> env.insert,
                          ts |-> ts, exc |-> out.exc, printed |-> out.printed, failed |-> out.failed]
              /\ ref' = IF StorageFailure(env) THEN ref
                        ELSE EconomicOutcome(ref, table, response, "ok", "ok", ts).db
    /\ pending' = Tail(pending)
    /\ clock' = clock + 1
    /\ UNCHANGED <<kind, ingestVars>>

StockLists == {<<"AAPL">>, <<"AAPL", "MSFT">>, <<"AAPL", "AAPL">>}
EconomicLists == {<<"UNRATE">>, <<"UNRATE", "VIXCLS">>, <<"UNRATE", "UNRATE">>}

\* fetch_stocks_data(db_path, stocks, ...) or fetch_economic_data(db_path, table_names, ...)
\* is entered on a new database
Init ==
    /\ store = EmptyStore
    /\ ref = EmptyStore
    /\ clock = 1
    /\ \/ kind = "stock" /\ pending \in StockLists
       \/ kind = "economic" /\ pending \in EconomicLists
    /\ last = NoCall
    /\ raised = "none"
    /\ table_names = <<>>
    /\ min_date = "2000-01-01"
    /\ ran = ""
    /\ dfs = <<>>
    /\ scaled = NotScaled

Next ==
    \/ fetch_and_insert_stock_data
    \/ fetch_and_insert_economic_data

Spec == Init /\ [][Next]_vars

(***************************************************************************)
(* DataIngestor (data_ingestion.py and dataIngestion.py).                  *)
(* A DataFrame indexed by date is a sequence of [date, row]; a Series is a *)
(* sequence of [date, val].  Row order is the order of the SELECT, which   *)
(* without ORDER BY is the order of insertion (rowid).                     *)
(***************************************************************************)
\* SELECT * from table WHERE DATE > 'min_date'
\* (mutant: the filter lets the minimum date itself pass)
SelectAfterOrAt(rows, min) ==
    SubSeqWhere(rows, LAMBDA i : ~SqlTextGreater(min, rows[i]["date"]))
\* (mutant: no filter, every row of the table is read)
SelectEveryRow(rows, min) == rows
SelectAfter(rows, min) ==
    SubSeqWhere(rows, LAMBDA i : SqlTextGreater(rows[i]["date"], min))

\* df['date'] = pd.to_datetime(df['date']); df.set_index('date')
SetIndex(data) == [i \in 1..Len(data) |-> [date |-> to_datetime(data[i]["date"]), row |-> data[i]]]

\* df.index
IndexOf(df) == [i \in 1..Len(df) |-> df[i].date]

\* df.index.duplicated(keep='first') at position i
Duplicated(df, i) == \E j \in 1..(i - 1) : df[j].date = df[i].date

\* df[~df.index.duplicated(keep='first')]   (data_ingestion.py)
DropDuplicatedIndex(df) == SubSeqWhere(df, LAMBDA i : ~Duplicated(df, i))

\* df.drop_duplicates(): a row is dropped when an earlier row has the same value in
\* every column; the index (date) is not a column any more   (dataIngestion.py)
SameColumns(r1, r2) == \A c \in (DOMAIN r1) \ {"date"} : r1[c] = r2[c]
DropDuplicates(df) ==
    SubSeqWhere(df, LAMBDA i : ~\E j \in 1..(i - 1) : SameColumns(df[j].row, df[i].row))

\* df[col] = pd.to_numeric(df[col], errors='coerce'); df[col]
NumericColumn(df, col) == [i \in 1..Len(df) |-> [date |-> df[i].date, val |-> to_numeric(df[i].row[col])]]

\* column_names[-1] and column_names[-2]
LastColumn(column_names) == column_names[Len(column_names)]
SecondLastColumn(column_names) == column_names[Len(column_names) - 1]

\* the Series one table contributes, data_ingestion.py lines 21-28
SeriesOfLegacy(db, table_name, min) ==
    LET column_names == db[table_name].columns
        df == DropDuplicatedIndex(SetIndex(SelectAfter(db[table_name].rows, min)))
    IN  NumericColumn(df, LastColumn(column_names))

\* the Series one table contributes, dataIngestion.py lines 59-68
SeriesOf(db, table_name, min) ==
    LET column_names == db[table_name].columns
        df == DropDuplicates(SetIndex(SelectAfter(db[table_name].rows, min)))
    IN  NumericColumn(df, SecondLastColumn(column_names))

\* Index.unique(): first occurrences, in order
Unique(idx) == SubSeqWhere(idx, LAMBDA i : ~\E j \in 1..(i - 1) : idx[j] = idx[i])

\* Index.intersection(other), sort=False: the distinct labels of self that other
\* holds, in the order of self
\* (mutant: the labels of self, whether other holds them or not)
IndexIntersectionKeepAll(self, other) == Unique(self)
IndexIntersection(self, other) ==
    LET u == Unique(self)
    IN  SubSeqWhere(u, LAMBDA i : u[i] \in Range(other))

\* common_dates = dfs[0].index; for df in dfs[1:]: common_dates = common_dates.intersection(df.index)
CommonDates(series) ==
    LET F[k \in 1..Len(series)] ==
            IF k = 1 THEN IndexOf(series[1])
            ELSE IndexIntersection(F[k - 1], IndexOf(series[k]))
    IN  F[Len(series)]

\* df.loc[labels]: for each label in turn, every row that carries it
Loc(df, labels) ==
    LET F[k \in 0..Len(labels)] ==
            IF k = 0 THEN <<>>
            ELSE F[k - 1] \o SubSeqWhere(df, LAMBDA i : df[i].date = labels[k])
    IN  F[Len(labels)]

\* (mutant: nothing is filled)
bfillNothing(s) == s
\* Series.bfill(): a NaN takes the next non-NaN value below it in row order
bfill(s) ==
    [i \in 1..Len(s) |->
        IF s[i].val # NaN THEN s[i]
        ELSE LET later == {j \in (i + 1)..Len(s) : s[j].val # NaN}
             IN  IF later = {} THEN s[i]
                 ELSE [s[i] EXCEPT !.val = s[SetMin(later)].val]]

\* df.loc[df.index.intersection(common_dates)], before the fill
Restricted(df, common_dates) == Loc(df, IndexIntersection(IndexOf(df), common_dates))

\* dfs = [df.loc[df.index.intersection(common_dates)].bfill() for df in dfs]
Align(series) ==
    LET common_dates == CommonDates(series)
    IN  [k \in 1..Len(series) |-> bfill(Restricted(series[k], common_dates))]

\* conn.execute(query) raises sqlite3.OperationalError for a table that does not exist
AllTablesExist(db, names) == \A k \in 1..Len(names) : db[names[k]].exists

NoException == "none"

\* DataIngestor.fetch_and_process_data of data_ingestion.py: no handler, the
\* sqlite3 error reaches the caller
data_ingestion_fetch_and_process_data ==
    /\ ran = ""
    /\ Len(table_names) > 0
    /\ ran' = "data_ingestion"
    /\ IF AllTablesExist(store, table_names)
       THEN /\ dfs' = Align([k \in 1..Len(table_names) |->
                                SeriesOfLegacy(store, table_names[k], min_date)])
            /\ raised' = NoException
       ELSE /\ dfs' = <<>>
            /\ raised' = "sqlite3.OperationalError"
    /\ UNCHANGED <<store, table_names, min_date, scaled, fetchVars>>

\* DataIngestor.fetch_and_process_data of dataIngestion.py: sqlite3.Error is
\* printed and [] returned
dataIngestion_fetch_and_process_data ==
    /\ ran = ""
    /\ Len(table_names) > 0
    /\ ran' = "dataIngestion"
    /\ IF AllTablesExist(store, table_names)
       THEN dfs' = Align([k \in 1..Len(table_names) |->
                                SeriesOf(store, table_names[k], min_date)])
       ELSE dfs' = <<>>
    /\ raised' = NoException
    /\ UNCHANGED <<store, table_names, min_date, scaled, fetchVars>>

(***************************************************************************)
(* The stores a DataIngestor is run on: each requested table is either     *)
(* absent or was created and filled by the stock fetcher.                  *)
(***************************************************************************)
SourceColumns == <<"date", "value">>

FullRecords == [{"date", "value"} -> DateTexts \cup ValueTexts]

StockRecords == {r \in FullRecords : r["date"] \in DateTexts /\ r["value"] \in ValueTexts}

FilledTable(data) ==
    InsertAll(create_table(EmptyStore, "income_statement", SourceColumns, TRUE),
              "income_statement", SourceColumns, data, "AAPL", TsText[1])["income_statement"]

IngestLists == {<<"income_statement">>, <<"income_statement", "balance_sheet_statement">>}

InitIngest ==
    /\ table_names \in IngestLists
    /\ min_date \in MinDateTexts
    /\ \E first \in {NoTable} \cup {FilledTable(d) : d \in SeqsUpTo(StockRecords, MaxRows)} :
       \E second \in {NoTable} \cup {FilledTable(d) :
                        d \in SeqsUpTo(StockRecords,
                                       IF Len(table_names) = 1 THEN 0
                                       ELSE MaxRows - Len(first.rows))} :
          store = [t \in TableNames |->
                     CASE t = "income_statement" -> first
                       [] t = "balance_sheet_statement" /\ Len(table_names) > 1 -> second
                       [] OTHER -> NoTable]
    /\ ran = ""
    /\ dfs = <<>>
    /\ scaled = NotScaled
    /\ raised = NoException
    /\ clock = 1
    /\ pending = <<>>
    /\ kind = "none"
    /\ last = NoCall
    /\ ref = store

NextIngest ==
    \/ dataIngestion_fetch_and_process_data
    \/ data_ingestion_fetch_and_process_data

SpecIngest == InitIngest /\ [][NextIngest]_vars

(***************************************************************************)
(* What the claims about fetch_and_process_data speak of.                  *)
(***************************************************************************)
\* fetch_and_process_data has returned its list of sequences
Returned == ran # "" /\ raised = NoException /\ AllTablesExist(store, table_names)

Requested == 1..Len(table_names)

\* positions of the rows of a table dated after the minimum date
RowsAfter(t) ==
    {i \in 1..Len(store[t].rows) :
        to_datetime(store[t].rows[i]["date"]) > to_datetime(min_date)}

\* the date keys of a table after the minimum-date filter
DateKeys(t) == {to_datetime(store[t].rows[i]["date"]) : i \in RowsAfter(t)}

\* the dates every requested series holds
CommonKeys == {d \in DateKeys(table_names[1]) : \A k \in Requested : d \in DateKeys(table_names[k])}

\* the date keys of a returned sequence
KeysOf(s) == {s[i].date : i \in 1..Len(s)}

\* the column whose values the module that ran returns
ValueColumn(t) ==
    IF ran = "data_ingestion" THEN LastColumn(store[t].columns)
    ELSE SecondLastColumn(store[t].columns)

\* the sequences as they are restricted to the common dates, before the fill
PreFill ==
    LET series == [k \in Requested |->
                     IF ran = "data_ingestion"
                     THEN SeriesOfLegacy(store, table_names[k], min_date)
                     ELSE SeriesOf(store, table_names[k], min_date)]
    IN  [k \in Requested |-> Restricted(series[k], CommonDates(series))]

\* C1: the date keys of every returned sequence are exactly the intersection of
\* the date-key sets of all requested series after the minimum-date filter.
C1_Intersection ==
    Returned =>
        /\ Len(dfs) = Len(table_names)
        /\ \A k \in Requested : KeysOf(dfs[k]) = CommonKeys

\* two series, each with a date the other lacks, and a date they share
C1_Witness ==
    /\ Returned
    /\ Len(table_names) = 2
    /\ DateKeys(table_names[1]) \ DateKeys(table_names[2]) # {}
    /\ DateKeys(table_names[2]) \ DateKeys(table_names[1]) # {}
    /\ CommonKeys # {}
    /\ \A k \in Requested : KeysOf(dfs[k]) = CommonKeys

\* C4: when a requested series has no row after the minimum-date filter, the
\* call returns sequences without any date key and raises nothing.
C4_EmptyResult ==
    (/\ ran # ""
     /\ AllTablesExist(store, table_names)
     /\ \E k \in Requested : RowsAfter(table_names[k]) = {})
    => /\ raised = NoException
       /\ Len(dfs) = Len(table_names)
       /\ \A k \in Requested : Len(dfs[k]) = 0

\* one series has rows, all of them dated the minimum date, the other has later rows
C4_Witness ==
    /\ ran # ""
    /\ Len(table_names) = 2
    /\ AllTablesExist(store, table_names)
    /\ RowsAfter(table_names[1]) = {}
    /\ Len(store[table_names[1]].rows) > 0
    /\ RowsAfter(table_names[2]) # {}
    /\ raised = NoException
    /\ \A k \in Requested : Len(dfs[k]) = 0

\* C2: of several rows with one date key exactly one is in the aligned output,
\* and it is the first-inserted one.
C2_FirstRowKept ==
    Returned =>
        \A k \in Requested : \A d \in KeysOf(dfs[k]) :
            LET t == table_names[k]
                first == store[t].rows[SetMin({i \in RowsAfter(t) :
                                to_datetime(store[t].rows[i]["date"]) = d})]
                kept == {i \in 1..Len(dfs[k]) : dfs[k][i].date = d}
            IN  /\ Cardinality(kept) = 1
                /\ to_numeric(first[ValueColumn(t)]) # NaN
                   => \A i \in kept : dfs[k][i].val = to_numeric(first[ValueColumn(t)])

\* C3: a missing value with a later non-missing value in date order takes the
\* nearest such value; a non-missing value is never changed.
C3_BackwardFillByDate ==
    Returned =>
        LET before == PreFill
        IN  \A k \in Requested :
                LET pre == before[k]
                IN  \A i \in 1..Len(dfs[k]) :
                        LET later == {j \in 1..Len(pre) :
                                        pre[j].date > pre[i].date /\ pre[j].val # NaN}
                            nearest == {j \in later : \A l \in later : pre[j].date <= pre[l].date}
                        IN  /\ pre[i].val # NaN => dfs[k][i].val = pre[i].val
                            /\ (pre[i].val = NaN /\ later # {})
                               => \E j \in nearest : dfs[k][i].val = pre[j].val

\* C5 as claimed: no cell of the returned matrix is missing.  Stated for
\* dataIngestion.py, which reads the source value column, so that a missing cell
\* is not one that comes from reading the load timestamp.
C5_NoMissingCell ==
    (Returned /\ ran = "dataIngestion") => \A k \in Requested : \A i \in 1..Len(dfs[k]) : dfs[k][i].val # NaN

\* C5 as amended: a cell of a returned sequence is missing exactly when the
\* sequence has no non-missing value at that row or at any row after it.
C5_MissingOnlyAtTail ==
    Returned =>
        LET before == PreFill
        IN  \A k \in Requested :
                LET pre == before[k]
                    out == dfs[k]
                IN  /\ Len(out) = Len(pre)
                    /\ \A i \in 1..Len(out) :
                          out[i].val = NaN <=> \A j \in i..Len(out) : pre[j].val = NaN

\* a missing value was filled and a later one, at the last row, stayed missing
C5_Witness ==
    /\ Returned
    /\ LET before == PreFill
       IN  \E k \in Requested :
              LET pre == before[k]
                  out == dfs[k]
              IN  \E i \in 1..Len(out) :
                      /\ pre[i].val = NaN
                      /\ out[i].val # NaN
                      /\ out[Len(out)].val = NaN

\* no table holds two rows with the same date
NoDuplicateDates ==
    \A k \in Requested :
        LET rows == store[table_names[k]].rows
        IN  \A i, j \in 1..Len(rows) : rows[i]["date"] = rows[j]["date"] => i = j

\* C6: one sequence per series name, in the order of the input list, all with
\* the same date keys in the same order, whatever the insertion order of the
\* rows.  Stated for tables without duplicate dates, where the de-duplication
\* of C2 plays no part.
C6_SameKeysSameOrder ==
    (Returned /\ NoDuplicateDates) =>
        /\ Len(dfs) = Len(table_names)
        /\ \A k \in Requested : IndexOf(dfs[k]) = IndexOf(dfs[1])

(***************************************************************************)
(* What the claims about the fetchers speak of.                            *)
(***************************************************************************)
\* the step is one call of fetch_and_insert_stock_data / fetch_and_insert_economic_data
CallStep == Len(pending') < Len(pending)

\* the latest call got data from the API and met no error at all
FetchedAndStored(call) ==
    /\ call.response.status = 200
    /\ call.response.json # <<>>
    /\ call.exc = NoError
    /\ call.printed = NoError

\* C7: after a successful economic fetch the table holds exactly one row for
\* each date the API returned (absent dates are inserted, present ones are not
\* inserted again).
C7_OneRowPerDate ==
    (/\ last.kind = "economic"
     /\ last.response.status = 200
     /\ last.response.json # <<>>
     /\ last.createEnv = "ok"
     /\ last.insertEnv = "ok")
    => \A n \in 1..Len(last.response.json) :
          Cardinality({i \in 1..Len(store[last.table].rows) :
                         store[last.table].rows[i]["date"] = last.response.json[n]["date"]}) = 1

\* C8: a successful stock fetch of N records adds exactly N rows after the rows
\* the table held, each with the ticker, the load timestamp and, for every
\* column of the first record, the record's value or the empty text; no other
\* table changes.
C8_RoundTrip ==
    [][(CallStep /\ last'.kind = "stock" /\ FetchedAndStored(last'))
        => LET t == last'.table
               data == last'.response.json
               old == store[t].rows
               new == store'[t].rows
           IN  /\ Len(new) = Len(old) + Len(data)
               /\ \A i \in 1..Len(old) : new[i] = old[i]
               /\ \A n \in 1..Len(data) :
                     LET row == new[Len(old) + n]
                     IN  /\ row["ticker"] = last'.series
                         /\ row["record_load_timestamp"] = last'.ts
                         /\ \A c \in DOMAIN data[1] :
                               row[c] = IF c \in DOMAIN data[n] THEN data[n][c] ELSE EmptyText
               /\ \A u \in TableNames \ {t} : store'[u] = store[u]]_vars

\* the second of two successful fetches of two records each: four rows, the last
\* one with the empty text for the field its record lacks
C8_Witness ==
    /\ last.kind = "stock"
    /\ FetchedAndStored(last)
    /\ Len(last.response.json) = 2
    /\ "value" \in DOMAIN last.response.json[1]
    /\ "value" \notin DOMAIN last.response.json[2]
    /\ Len(store[last.table].rows) = 4
    /\ store[last.table].rows[4]["value"] = EmptyText
    /\ store[last.table].rows[4]["ticker"] = last.series
    /\ store[last.table].rows[1]["record_load_timestamp"] # store[last.table].rows[4]["record_load_timestamp"]

\* the rows of table a are the rows of table b, column by column of b
SameRows(a, b) ==
    /\ Len(a.rows) = Len(b.rows)
    /\ \A i \in 1..Len(b.rows) : \A c \in DOMAIN b.rows[i] :
          c \in DOMAIN a.rows[i] /\ a.rows[i][c] = b.rows[i][c]

\* C9: when the loop has ended no exception has reached the caller, and every
\* table holds the rows it would hold had the calls that met a storage failure
\* not been requested: a failing call persists no row and the other calls
\* persist what they would have persisted without it.
C9_FailureIsolation ==
    pending = <<>> =>
        /\ raised = "none"
        /\ \A t \in TableNames : SameRows(store[t], ref[t])

\* C10: a call whose response is a non-success status or an empty result leaves
\* the store as it was and returns normally.
C10_NoDataNoChange ==
    [][(CallStep /\ (last'.response.status # 200 \/ last'.response.json = <<>>))
        => (store' = store /\ raised' = "none")]_vars

\* a non-success response that carries a body, after an earlier call stored rows
C10_Witness ==
    /\ last.kind # "none"
    /\ last.response.status # 200
    /\ last.response.json # <<>>
    /\ store[last.table].rows # <<>>
    /\ raised = "none"

\* an empty result on a new database leaves it without any table
C10_WitnessEmpty ==
    /\ last.kind # "none"
    /\ last.response.status = 200
    /\ last.response.json = <<>>
    /\ store = EmptyStore

(***************************************************************************)
(* DataIngestor.scale_data (identical in data_ingestion.py and             *)
(* dataIngestion.py).  Cells are integers, so a mean is the rational S/n   *)
(* and a standard deviation is Sqrt(D)/n with D = n*Q - S*S, where n, S, Q *)
(* are the count, the sum and the sum of squares of the present cells.     *)
(* A scaled cell is <<c, r>>, standing for c / Sqrt(r), or NaN, or Inf.    *)
(***************************************************************************)
Inf == <<1, 0>>

SumSeq(s) ==
    LET F[i \in 0..Len(s)] == IF i = 0 THEN 0 ELSE F[i - 1] + s[i]
    IN  F[Len(s)]

\* Index.has_duplicates
HasDuplicates(idx) == \E i, j \in 1..Len(idx) : i < j /\ idx[i] = idx[j]

\* the union of the indexes, labels in the order they first appear
UnionIndex(indexes) ==
    LET F[k \in 0..Len(indexes)] == IF k = 0 THEN <<>> ELSE F[k - 1] \o indexes[k]
    IN  Unique(F[Len(indexes)])

\* Series.reindex(labels): the value at each label, NaN where the series lacks it
Reindex(series, labels) ==
    [i \in 1..Len(labels) |->
        LET at == {j \in 1..Len(series) : series[j].date = labels[i]}
        IN  IF at = {} THEN NaN ELSE series[SetMin(at)].val]

\* pd.concat(dfs, axis=1): the columns side by side when every index is the same,
\* otherwise every series reindexed to the union of the indexes, which pandas
\* refuses for an index with duplicates
concat(series) ==
    IF Len(series) = 0 THEN [exc |-> "ValueError", columns |-> <<>>]
    ELSE IF \A k \in 1..Len(series) : IndexOf(series[k]) = IndexOf(series[1])
    THEN [exc |-> NoException,
          columns |-> [k \in 1..Len(series) |-> [i \in 1..Len(series[k]) |-> series[k][i].val]]]
    ELSE IF \E k \in 1..Len(series) : HasDuplicates(IndexOf(series[k]))
    THEN [exc |-> "InvalidIndexError", columns |-> <<>>]
    ELSE [exc |-> NoException,
          columns |-> [k \in 1..Len(series) |->
                         Reindex(series[k], UnionIndex([j \in 1..Len(series) |-> IndexOf(series[j])]))]]

\* StandardScaler.fit on one column: the statistics of its present (non-NaN) cells
fit(column) ==
    LET vals == [i \in 1..Len(column) |-> IF column[i] = NaN THEN 0 ELSE column[i][1]]
        n == Cardinality({i \in 1..Len(column) : column[i] # NaN})
        S == SumSeq(vals)
        Q == SumSeq([i \in 1..Len(column) |-> vals[i] * vals[i]])
    IN  [n |-> n, S |-> S, D |-> n * Q - S * S]

\* (mutant: a zero scale is left as it is)
handle_zeros_in_scale_not(stats) == stats.D
\* sklearn's _handle_zeros_in_scale: a scale of zero is replaced by 1 = Sqrt(n*n)/n;
\* the result is the radicand r of the scale Sqrt(r)/n
handle_zeros_in_scale(stats) == IF stats.D = 0 THEN stats.n * stats.n ELSE stats.D

\* (x - mean) / scale for one cell: (n*x - S)/n over Sqrt(r)/n
transform(cell, stats) ==
    LET c == stats.n * cell[1] - stats.S
        r == handle_zeros_in_scale(stats)
    IN  IF cell = NaN \/ stats.n = 0 THEN NaN
        ELSE IF r = 0 THEN (IF c = 0 THEN NaN ELSE Inf)
        ELSE <<c, r>>

\* StandardScaler().fit_transform(feature_df), column by column
fit_transform(columns) ==
    [k \in 1..Len(columns) |->
        LET stats == fit(columns[k])
        IN  [i \in 1..Len(columns[k]) |-> transform(columns[k][i], stats)]]

\* scale_data, lines 91-97: the exception it raises and the frame it returns
ScaleOutcome(series, names) ==
    LET feature_df == concat(series)
    IN  IF feature_df.exc # NoException THEN feature_df
        \* feature_df.columns = self.table_names
        ELSE IF Len(feature_df.columns) # Len(names) THEN [exc |-> "ValueError", columns |-> <<>>]
        \* StandardScaler refuses an array without rows
        ELSE IF Len(feature_df.columns[1]) = 0 THEN [exc |-> "ValueError", columns |-> <<>>]
        ELSE [exc |-> NoException, columns |-> fit_transform(feature_df.columns)]

\* process_data line 19: data_ingestor.scale_data(dfs)
scale_data ==
    /\ ran # ""
    /\ raised = NoException
    /\ ~scaled.done
    /\ LET out == ScaleOutcome(dfs, table_names)
       IN  /\ scaled' = [done |-> TRUE, columns |-> out.columns]
           /\ raised' = out.exc
    /\ UNCHANGED <<store, table_names, min_date, ran, dfs, fetchVars>>

(***************************************************************************)
(* The lists scale_data is handed: what fetch_and_process_data returns,    *)
(* one sequence per name, all over the same date keys 1..n, each in its    *)
(* own row order and possibly with a repeated date; or [] after a database *)
(* error.                                                                  *)
(***************************************************************************)
ScaleCells == {Num(1), Num(4), NaN}

Ascending(n) == [i \in 1..n |-> i]
Descending(n) == [i \in 1..n |-> n + 1 - i]

\* the row orders of a sequence over the date keys 1..n
IndexShapes(n) ==
    {Ascending(n), Descending(n)}
        \cup (IF n >= 1 /\ n < MaxScaleRows THEN {Append(Ascending(n), 1)} ELSE {})

AlignedSeries(n) ==
    UNION {{[i \in 1..Len(idx) |-> [date |-> idx[i], val |-> cells[i]]] :
               cells \in [1..Len(idx) -> ScaleCells]} : idx \in IndexShapes(n)}

InitScale ==
    /\ store = EmptyStore
    /\ ref = EmptyStore
    /\ clock = 1
    /\ pending = <<>>
    /\ kind = "none"
    /\ last = NoCall
    /\ table_names \in IngestLists
    /\ min_date = "2000-01-01"
    /\ ran = "dataIngestion"
    /\ \/ dfs = <<>>
       \/ \E n \in 0..MaxScaleRows : dfs \in [1..Len(table_names) -> AlignedSeries(n)]
    /\ scaled = NotScaled
    /\ raised = NoException

NextScale == scale_data

SpecScale == InitScale /\ [][NextScale]_vars

(***************************************************************************)
(* What the claim about scale_data speaks of.                              *)
(***************************************************************************)
\* scale_data has returned a frame to its caller
ScaledReturned == scaled.done /\ raised = NoException

\* the columns of the matrix scale_data standardizes
FeatureColumns == concat(dfs).columns

\* every cell of the column is present and they are all equal, as in [4, 4, 4]
ZeroVariance(column) ==
    /\ Len(column) > 0
    /\ \A i \in 1..Len(column) : column[i] # NaN /\ column[i] = column[1]

\* the column holds two present cells that differ
HasVariance(column) ==
    \E i, j \in 1..Len(column) : column[i] # NaN /\ column[j] # NaN /\ column[i] # column[j]

\* the scaled cell is the defined value 0
IsZero(cell) == cell # NaN /\ cell # Inf /\ cell[1] = 0 /\ cell[2] > 0

\* over the cells present in the input the scaled column has mean 0 and variance 1:
\* with cells c/Sqrt(r), the c sum to 0 and their squares sum to n*r
Standardized(column, out) ==
    LET present == {i \in 1..Len(column) : column[i] # NaN}
        n == Cardinality(present)
        c == [i \in 1..Len(column) |-> IF i \in present THEN out[i][1] ELSE 0]
    IN  /\ \A i \in present : out[i] # NaN /\ out[i] # Inf /\ out[i][2] > 0
        /\ \A i, j \in present : out[i][2] = out[j][2]
        /\ SumSeq(c) = 0
        /\ \A i \in present :
              SumSeq([m \in 1..Len(column) |-> c[m] * c[m]]) = n * out[i][2]

\* C11: when scale_data returns a frame, every cell of a zero-variance column
\* is the defined value 0 (never NaN, never infinite), and every column that
\* has variance is standardized to mean 0 and variance 1 over its present cells;
\* otherwise an exception has reached the caller.
C11_ZeroVarianceDefined ==
    ScaledReturned =>
        LET feature_df == FeatureColumns
        IN  /\ Len(scaled.columns) = Len(feature_df)
            /\ \A k \in 1..Len(feature_df) :
                  LET column == feature_df[k]
                      out == scaled.columns[k]
                  IN  /\ Len(out) = Len(column)
                      /\ ZeroVariance(column) => \A i \in 1..Len(out) : IsZero(out[i])
                      /\ HasVariance(column) => Standardized(column, out)

\* the column [4, 4, 4] beside a column with variance whose rows come in the
\* opposite date order
C11_Witness ==
    /\ ScaledReturned
    /\ Len(dfs) = 2
    /\ IndexOf(dfs[1]) = <<1, 2, 3>>
    /\ IndexOf(dfs[2]) = <<3, 2, 1>>
    /\ FeatureColumns[1] = <<Num(4), Num(4), Num(4)>>
    /\ FeatureColumns[2] = <<Num(1), Num(4), Num(4)>>
    /\ \A i \in 1..3 : IsZero(scaled.columns[1][i])
    /\ scaled.columns[2] = <<<<-6, 18>>, <<3, 18>>, <<3, 18>>>>

(***************************************************************************)
(* What the claims about the column and the rows that                      *)
(* fetch_and_process_data reads speak of.                                  *)
(***************************************************************************)
\* the last source field of a table the fetchers wrote: its columns are id,
\* ticker, the source fields and, last, record_load_timestamp
LastSourceColumn(t) == SourceColumns[Len(SourceColumns)]

\* the numbers the source value column holds in the rows of a table that carry
\* the date, NaN for a text that is no number
ValuesAt(t, date) ==
    {to_numeric(store[t].rows[j][LastSourceColumn(t)]) :
        j \in {m \in RowsAfter(t) : to_datetime(store[t].rows[m]["date"]) = date}}

\* the numbers the source value column holds in the rows read from a table
ValuesRead(t) ==
    {to_numeric(store[t].rows[j][LastSourceColumn(t)]) : j \in RowsAfter(t)}

\* C12: every number a returned sequence holds is the number of the source
\* value column of a row read from its table (never the load timestamp, never
\* a zero put for a text that is no number), and a returned row whose date has
\* only parseable source values in the table holds one of them.
C12_ValueColumnReturned ==
    Returned =>
        \A k \in 1..Len(dfs) :
            LET t == table_names[k]
                s == dfs[k]
            IN  \A i \in 1..Len(s) :
                   /\ s[i].val # NaN => s[i].val \in ValuesRead(t)
                   /\ NaN \notin ValuesAt(t, s[i].date) => s[i].val \in ValuesAt(t, s[i].date)

\* the day the configured minimum date names
MinDay == to_datetime(min_date)

\* the rows of a table dated strictly after the minimum date, in insertion order
LaterRows(t) ==
    LET rows == store[t].rows
    IN  SubSeqWhere(rows, LAMBDA i : to_datetime(rows[i]["date"]) > MinDay)

\* C13: the rows read from each requested series are exactly its rows dated
\* strictly after the minimum date, in insertion order; no returned sequence
\* holds a date equal to the minimum date or earlier; and when one series is
\* requested every later date of its table is returned.
C13_StrictlyAfterMinDate ==
    Returned =>
        /\ \A k \in Requested :
              SelectAfter(store[table_names[k]].rows, min_date) = LaterRows(table_names[k])
        /\ \A k \in 1..Len(dfs) : \A i \in 1..Len(dfs[k]) : dfs[k][i].date > MinDay
        /\ Len(table_names) = 1 =>
              KeysOf(dfs[1]) = {to_datetime(store[table_names[1]].rows[j]["date"]) :
                                  j \in {m \in 1..Len(store[table_names[1]].rows) :
                                           to_datetime(store[table_names[1]].rows[m]["date"]) > MinDay}}

\* a table with a row before the minimum date, a row on it and a row after it:
\* only the last one is returned
C13_Witness ==
    /\ Returned
    /\ Len(table_names) = 1
    /\ min_date = "2000-01-02"
    /\ {store[table_names[1]].rows[j]["date"] : j \in 1..Len(store[table_names[1]].rows)}
          = {"2000-01-01", "2000-01-02", "2000-01-03"}
    /\ Len(dfs) = 1
    /\ IndexOf(dfs[1]) = <<3>>

====
